---- MODULE Spec2Model ----
(***************************************************************************)
(* Fixed-timestep simulation scheduler of bouncing-ball (src/main.rs):     *)
(* engine::simulator::Simulation driving a Vec of Ball objects.            *)
(*                                                                         *)
(* Numbers.  Times are whole seconds and lengths whole pixels, so the f64  *)
(* and f32 arithmetic of the source becomes integer arithmetic; a product  *)
(* with the factor 0.8 is rounded toward zero.  usize keeps its wrapping   *)
(* and saturating behaviour at a reduced width of USIZE_BITS bits; the     *)
(* elapsed times are non-negative and their tick numbers fit that width.   *)
(***************************************************************************)
EXTENDS Integers, Sequences, FiniteSets, TLC

\* ------------------------------------------------------------ bounds
MaxTime == 5        \* largest elapsed wall time handed to do_tick
MaxCalls == 2       \* do_tick calls in one run
MaxAdds == 3        \* add_object calls in one run
USIZE_BITS == 3     \* modelled width of usize

\* --------------------------------------------------------- constants
BALL_EXPIRY_TIME == 2
FLOOR_Y == 500
GRAVITY_MULTIPLIER == 40
EARTH_ACCELERATION_M_PER_S_X10 == 98     \* 9.8, in tenths
DAMPENING_MULTIPLIER_X10 == 8            \* 0.8, in tenths
WALL_LEFT == 200
WALL_RIGHT == 500

USIZE_MAX == 2^USIZE_BITS - 1
USIZE_MOD == 2^USIZE_BITS

Times == 0..MaxTime
TickLens == {1, 2}             \* seconds_per_tick > 0
AnyTickLens == {-1, 0, 1, 2}   \* every f64 sign class new() accepts

VARIABLES
    seconds_per_tick,   \* Simulation.seconds_per_tick
    objects,            \* Simulation.objects, a sequence of balls
    tick_count,         \* Simulation.tick_count
    status,             \* "running" | "ticking" (inside do_tick) | "panicked"
    clock,              \* the time passed to the latest do_tick
    last_op,            \* the operation that produced this state
    invoked,            \* ids of the objects whose on_tick / on_draw the last operation called, in call order
    ret,                \* value the last operation returned (<<>> for unit)
    next_id,            \* insertion stamp given to the next added object
    removed,            \* ids of the objects that had expired when a do_handle_expiry ran
    before,             \* objects as they were when the last operation began
    before_tick_count,  \* tick_count when the last operation began
    do_tick_calls,      \* number of do_tick calls so far
    passes_total,       \* number of tick passes performed so far
    pass_index          \* passes done by the do_tick in progress (the loop variable of its for)

vars == <<seconds_per_tick, objects, tick_count, status, clock,
          last_op, invoked, ret, next_id, removed, before, before_tick_count,
          do_tick_calls, passes_total, pass_index>>

\* ------------------------------------------------------------- helpers
\* Division rounded toward zero, as an f32 product cut to whole units.
TruncDiv(a, b) == IF a >= 0 THEN a \div b ELSE -((-a) \div b)

\* a clamp that forgets the lower bound
ClampUpper(x, lo, hi) == IF x > hi THEN hi ELSE x

Clamp(x, lo, hi) == IF x < lo THEN lo ELSE IF x > hi THEN hi ELSE x

\* `x as usize` for a float x: saturating.
AsUsize(x) == IF x < 0 THEN 0 ELSE IF x > USIZE_MAX THEN USIZE_MAX ELSE x

\* (time / seconds_per_tick).floor() as usize.  Division by zero gives
\* +inf (saturates to usize::MAX) for time > 0 and NaN (cast to 0) for 0.
ExpectedTickCount(time, spt) ==
    IF spt = 0 THEN (IF time > 0 THEN USIZE_MAX ELSE 0)
    ELSE IF spt > 0 THEN AsUsize(time \div spt)
    ELSE AsUsize((-time) \div (-spt))

Ids(objs) == [i \in 1..Len(objs) |-> objs[i].id]
IdSet(objs) == {objs[i].id : i \in 1..Len(objs)}

\* ---------------------------------------------------------------- Ball
\* A Ball.  nan names the f32 fields that hold NaN (such a field's number is
\* kept at 0); ticks counts the on_tick calls received and born is
\* passes_total when the ball was added.
NewBall(id, px, py, vx, vy) ==
    [id |-> id, pos_x |-> px, pos_y |-> py, vel_x |-> vx, vel_y |-> vy,
     time_on_floor |-> 0, nan |-> {}, ticks |-> 0, born |-> 0]

\* The balls main() constructs: the first one, and one drawn from the
\* ranges of the click handler.
BallInputs == { <<400, 100, 80, 0>>, <<400, 300, 50, 0>> }

\* Ball::is_expired
is_expired(b) == b.time_on_floor >= BALL_EXPIRY_TIME

\* Ball::get_alpha, in hundredths
get_alpha(b) == ((BALL_EXPIRY_TIME - b.time_on_floor) * 100) \div BALL_EXPIRY_TIME

\* velocity *= -DAMPENING_MULTIPLIER
Dampened(v) == TruncDiv(v * (-DAMPENING_MULTIPLIER_X10), 10)

\* The first half of Ball::on_tick: gravity added to velocity.y, then
\* pos += velocity * tick_len_seconds.  A sum with a NaN term is NaN.
Moved(b, tick_len_seconds) ==
    LET vy1 == IF "vel_y" \in b.nan THEN 0
               ELSE b.vel_y + (tick_len_seconds * EARTH_ACCELERATION_M_PER_S_X10
                                  * GRAVITY_MULTIPLIER) \div 10
        nan1 == b.nan \cup (IF "vel_x" \in b.nan THEN {"pos_x"} ELSE {})
                      \cup (IF "vel_y" \in b.nan THEN {"pos_y"} ELSE {})
    IN [b EXCEPT !.vel_y = vy1,
                 !.pos_x = IF "pos_x" \in nan1 THEN 0 ELSE @ + b.vel_x * tick_len_seconds,
                 !.pos_y = IF "pos_y" \in nan1 THEN 0 ELSE @ + vy1 * tick_len_seconds,
                 !.nan = nan1]

\* self.pos.y > FLOOR_Y (false for NaN)
BelowFloor(m) == "pos_y" \notin m.nan /\ m.pos_y > FLOOR_Y

\* self.pos.x > 500. || self.pos.x < 200. (false for NaN)
OutsideWalls(m) == "pos_x" \notin m.nan /\ (m.pos_x > WALL_RIGHT \/ m.pos_x < WALL_LEFT)

\* on_tick that keeps the time of the current floor contact only
on_tick_contact(b, tick_len_seconds) ==
    LET m == Moved(b, tick_len_seconds)
    IN [m EXCEPT !.pos_x = IF OutsideWalls(m) THEN Clamp(@, WALL_LEFT, WALL_RIGHT) ELSE @,
                 !.pos_y = IF BelowFloor(m) THEN FLOOR_Y ELSE @,
                 !.vel_x = IF OutsideWalls(m) THEN Dampened(@) ELSE @,
                 !.vel_y = IF BelowFloor(m) THEN Dampened(@) ELSE @,
                 !.time_on_floor = IF BelowFloor(m) THEN @ + tick_len_seconds ELSE 0,
                 !.ticks = @ + 1]

\* Ball::on_tick; m is the ball after the move, evaluated once.
on_tick(b, tick_len_seconds) ==
    CHOOSE r \in {
      [m EXCEPT !.pos_x = IF OutsideWalls(m) THEN Clamp(@, WALL_LEFT, WALL_RIGHT) ELSE @,
               !.pos_y = IF BelowFloor(m) THEN FLOOR_Y ELSE @,
               !.vel_x = IF OutsideWalls(m) THEN Dampened(@) ELSE @,
               !.vel_y = IF BelowFloor(m) THEN Dampened(@) ELSE @,
               !.time_on_floor = IF BelowFloor(m) THEN @ + tick_len_seconds ELSE @,
               !.ticks = @ + 1] :
       m \in {Moved(b, tick_len_seconds)} } : TRUE

\* on_draw that advances the fade it draws
on_draw_fading(b) ==
    [self |-> [b EXCEPT !.time_on_floor = @ + 1], alpha |-> get_alpha(b)]

\* Ball::on_draw: takes &self, so the ball is as it was; the circle, the
\* arrow and the text are drawn with get_alpha.
on_draw(b) == [self |-> b, alpha |-> get_alpha(b)]

\* ---------------------------------------------------------- Simulation
\* retain that tests is_expired without the negation
RECURSIVE RetainExpired(_, _)
RetainExpired(objs, i) ==
    IF i > Len(objs) THEN <<>>
    ELSE IF is_expired(objs[i]) THEN <<objs[i]>> \o RetainExpired(objs, i + 1)
    ELSE RetainExpired(objs, i + 1)

\* retain whose scan stops one element early, keeping the last untested
RECURSIVE RetainSkipsLast(_, _)
RetainSkipsLast(objs, i) ==
    IF i >= Len(objs) THEN (IF i = Len(objs) THEN <<objs[i]>> ELSE <<>>)
    ELSE IF ~is_expired(objs[i]) THEN <<objs[i]>> \o RetainSkipsLast(objs, i + 1)
    ELSE RetainSkipsLast(objs, i + 1)

\* Vec::retain(|o| !o.is_expired()) from element i on: one pass in order,
\* keeping the elements the predicate accepts and dropping the others.
RECURSIVE Retain(_, _)
Retain(objs, i) ==
    IF i > Len(objs) THEN <<>>
    ELSE IF ~is_expired(objs[i]) THEN <<objs[i]>> \o Retain(objs, i + 1)
    ELSE Retain(objs, i + 1)

\* do_draw's pass from element i on: objects.iter().for_each(|o| o.on_draw()).
RECURSIVE DrawPass(_, _)
DrawPass(objs, i) ==
    IF i > Len(objs) THEN [objects |-> <<>>, calls |-> <<>>]
    ELSE LET rest == DrawPass(objs, i + 1)
         IN [objects |-> <<on_draw(objs[i]).self>> \o rest.objects,
             calls |-> <<objs[i].id>> \o rest.calls]

\* a pass in which every object takes the vertical velocity of the first
RECURSIVE TickPassShared(_, _, _)
TickPassShared(objs, i, spt) ==
    IF i > Len(objs) THEN [objects |-> <<>>, calls |-> <<>>]
    ELSE LET ticked == [on_tick(objs[i], spt) EXCEPT !.vel_y = on_tick(objs[1], spt).vel_y]
             rest == TickPassShared(objs, i + 1, spt)
         IN [objects |-> <<ticked>> \o rest.objects, calls |-> <<objs[i].id>> \o rest.calls]

\* One tick pass from element i on:
\* objects.iter_mut().for_each(|o| o.on_tick(seconds_per_tick)).
\* Returns the ticked objects and the ids in call order.
RECURSIVE TickPass(_, _, _)
TickPass(objs, i, spt) ==
    IF i > Len(objs) THEN [objects |-> <<>>, calls |-> <<>>]
    ELSE CHOOSE r \in { [objects |-> <<on_tick(objs[i], spt)>> \o rest.objects,
                          calls |-> <<objs[i].id>> \o rest.calls] :
                         rest \in {TickPass(objs, i + 1, spt)} } : TRUE

\* passes that prune the expired objects after each pass
RECURSIVE TickPassesPruning(_, _, _)
TickPassesPruning(objs, n, spt) ==
    IF n <= 0 THEN [objects |-> objs, calls |-> <<>>]
    ELSE LET first == TickPass(objs, 1, spt)
             rest == TickPassesPruning(Retain(first.objects, 1), n - 1, spt)
         IN [objects |-> rest.objects, calls |-> first.calls \o rest.calls]

\* for _ in 0..n { one pass }
RECURSIVE TickPasses(_, _, _)
TickPasses(objs, n, spt) ==
    IF n <= 0 THEN [objects |-> objs, calls |-> <<>>]
    ELSE LET first == TickPass(objs, 1, spt)
             rest == TickPasses(first.objects, n - 1, spt)
         IN [objects |-> rest.objects, calls |-> first.calls \o rest.calls]

\* let ticks_to_perform = expected_tick_count - self.tick_count, as the
\* wrapping build computes it; the checking build panics when Underflows.
Underflows(expected_tick_count, tc) == expected_tick_count < tc
TicksToPerform(expected_tick_count, tc) == (expected_tick_count - tc) % USIZE_MOD

\* 0..(ticks_to_perform + 1): the number of tick passes, wrapped; the
\* checking build panics when RangeOverflows.
RangeOverflows(ticks_to_perform) == ticks_to_perform + 1 > USIZE_MAX

\* the range without the extra pass
PassCountNoExtra(ticks_to_perform) == ticks_to_perform % USIZE_MOD

PassCount(ticks_to_perform) == (ticks_to_perform + 1) % USIZE_MOD

\* self.tick_count += ticks_to_perform, wrapped; the checking build panics
\* when AddOverflows.
AddOverflows(tc, ticks_to_perform) == tc + ticks_to_perform > USIZE_MAX

\* tick_count advanced by the number of passes
AdvanceByPasses(tc, ticks_to_perform) == (tc + ticks_to_perform + 1) % USIZE_MOD

\* tick_count assigned instead of advanced
AssignTicks(tc, ticks_to_perform) == ticks_to_perform % USIZE_MOD

AdvanceTickCount(tc, ticks_to_perform) == (tc + ticks_to_perform) % USIZE_MOD

\* a push that overwrites the last slot
PushOverLast(objs, boxed) ==
    IF objs = <<>> THEN <<boxed>> ELSE [objs EXCEPT ![Len(objs)] = boxed]

\* insertion at the front
PushFront(objs, boxed) == <<boxed>> \o objs

\* self.objects.push(boxed)
Push(objs, boxed) == Append(objs, boxed)

\* Simulation::new
New(spt) ==
    /\ seconds_per_tick = spt
    /\ objects = <<>>
    /\ tick_count = 0
    /\ status = "running"
    /\ clock = 0
    /\ last_op = "new"
    /\ invoked = <<>>
    /\ ret = <<>>
    /\ next_id = 1
    /\ removed = {}
    /\ before = <<>>
    /\ before_tick_count = 0
    /\ do_tick_calls = 0
    /\ passes_total = 0
    /\ pass_index = 0

Init == \E spt \in TickLens : New(spt)

InitAnyLen == \E spt \in AnyTickLens : New(spt)

\* What every operation records about the state it started from.
Began(op) ==
    /\ status = "running"
    /\ last_op' = op
    /\ before' = objects
    /\ before_tick_count' = tick_count
    /\ UNCHANGED <<seconds_per_tick, pass_index>>

\* Simulation::get_tick_count
GetTickCount ==
    /\ Began("get_tick_count")
    /\ ret' = tick_count
    /\ invoked' = <<>>
    /\ UNCHANGED <<objects, tick_count, status, clock, next_id, removed,
                   do_tick_calls, passes_total>>

\* Simulation::get_object_count
GetObjectCount ==
    /\ Began("get_object_count")
    /\ ret' = Len(objects)
    /\ invoked' = <<>>
    /\ UNCHANGED <<objects, tick_count, status, clock, next_id, removed,
                   do_tick_calls, passes_total>>

\* Simulation::add_object
AddObject(b) ==
    /\ next_id <= MaxAdds
    /\ Began("add_object")
    /\ objects' = Push(objects, [NewBall(next_id, b[1], b[2], b[3], b[4])
                                    EXCEPT !.born = passes_total])
    /\ next_id' = next_id + 1
    /\ invoked' = <<>>
    /\ ret' = <<>>
    /\ UNCHANGED <<tick_count, status, clock, removed, do_tick_calls, passes_total>>

\* Simulation::do_draw
DoDraw ==
    /\ Began("do_draw")
    /\ objects' = DrawPass(objects, 1).objects
    /\ invoked' = DrawPass(objects, 1).calls
    /\ ret' = <<>>
    /\ UNCHANGED <<tick_count, status, clock, next_id, removed,
                   do_tick_calls, passes_total>>

\* Simulation::do_handle_expiry
DoHandleExpiry ==
    /\ Began("do_handle_expiry")
    /\ objects' = Retain(objects, 1)
    /\ removed' = removed \cup {objects[i].id : i \in {j \in 1..Len(objects) : is_expired(objects[j])}}
    /\ invoked' = <<>>
    /\ ret' = <<>>
    /\ UNCHANGED <<tick_count, status, clock, next_id, do_tick_calls, passes_total>>

\* Simulation::do_tick.  Each of the three usize operations (-, + 1, +=)
\* that overflows either panics (a build with overflow checks) or wraps (a
\* build without); a panic ends the program.  counted tells whether the
\* call enters do_tick_calls and passes_total.
DoTickOp(time, counted) ==
    /\ Began("do_tick")
    /\ clock' = time
    /\ do_tick_calls' = IF counted THEN do_tick_calls + 1 ELSE do_tick_calls
    /\ ret' = <<>>
    /\ UNCHANGED <<next_id, removed>>
    /\ LET expected_tick_count == ExpectedTickCount(time, seconds_per_tick)
           ticks_to_perform == TicksToPerform(expected_tick_count, tick_count)
           n_passes == PassCount(ticks_to_perform)
           ticked == TickPasses(objects, n_passes, seconds_per_tick)
       IN \/ /\ \/ Underflows(expected_tick_count, tick_count)
                \/ RangeOverflows(ticks_to_perform)
             /\ status' = "panicked"
             /\ invoked' = <<>>
             /\ UNCHANGED <<objects, tick_count, passes_total>>
          \/ /\ objects' = ticked.objects
             /\ invoked' = ticked.calls
             /\ passes_total' = IF counted THEN passes_total + n_passes ELSE passes_total
             /\ \/ /\ AddOverflows(tick_count, ticks_to_perform)
                   /\ status' = "panicked"
                   /\ UNCHANGED tick_count
                \/ /\ status' = "running"
                   /\ tick_count' = AdvanceTickCount(tick_count, ticks_to_perform)

\* a do_tick that is counted, up to MaxCalls of them
DoTick(time) == do_tick_calls < MaxCalls /\ DoTickOp(time, TRUE)

\* do_tick fed by a monotonic clock
Tick == \E time \in Times : time >= clock /\ DoTick(time)

\* do_tick fed by any clock
TickAnyTime == \E time \in Times : DoTick(time)

Add == \E b \in BallInputs : AddObject(b)

Next ==
    \/ Tick
    \/ Add
    \/ DoHandleExpiry
    \/ DoDraw
    \/ GetTickCount
    \/ GetObjectCount

NextAnyTime ==
    \/ TickAnyTime
    \/ Add
    \/ DoHandleExpiry
    \/ DoDraw
    \/ GetTickCount
    \/ GetObjectCount

\* seconds_per_tick > 0, monotonic wall time
Spec == Init /\ [][Next]_vars

\* seconds_per_tick > 0, wall time free to regress
SpecAnyTime == Init /\ [][NextAnyTime]_vars

\* any seconds_per_tick, monotonic wall time
SpecAnyLen == InitAnyLen /\ [][Next]_vars

\* ------------------------------------------------- do_tick, pass by pass
\* The number of passes the do_tick in progress makes: the length of the
\* range 0..(ticks_to_perform + 1), tick_count being untouched until the end.
LoopBound ==
    PassCount(TicksToPerform(ExpectedTickCount(clock, seconds_per_tick), tick_count))

\* a loop variable that is never advanced
StuckPassIndex(i) == i

\* the range iterator handing out its next value
NextPassIndex(i) == i + 1

\* lines 86-87 of do_tick, for a call whose expected tick count is not
\* below tick_count (neither usize operation overflows)
TickBegin(time) ==
    /\ status = "running"
    /\ do_tick_calls < MaxCalls
    /\ ~Underflows(ExpectedTickCount(time, seconds_per_tick), tick_count)
    /\ ~RangeOverflows(TicksToPerform(ExpectedTickCount(time, seconds_per_tick), tick_count))
    /\ status' = "ticking"
    /\ last_op' = "do_tick"
    /\ before' = objects
    /\ before_tick_count' = tick_count
    /\ clock' = time
    /\ invoked' = <<>>
    /\ ret' = <<>>
    /\ pass_index' = 0
    /\ UNCHANGED <<seconds_per_tick, objects, tick_count, next_id, removed,
                   do_tick_calls, passes_total>>

TickEnter == \E time \in Times : time >= clock /\ TickBegin(time)

\* one iteration of the for loop, lines 88-92
TickLoopPass ==
    /\ status = "ticking"
    /\ pass_index < LoopBound
    /\ objects' = TickPass(objects, 1, seconds_per_tick).objects
    /\ invoked' = invoked \o TickPass(objects, 1, seconds_per_tick).calls
    /\ pass_index' = NextPassIndex(pass_index)
    /\ passes_total' = passes_total + 1
    /\ UNCHANGED <<seconds_per_tick, tick_count, status, clock, last_op, ret, next_id,
                   removed, before, before_tick_count, do_tick_calls>>

\* the range is exhausted: line 93, and do_tick returns
TickReturn ==
    /\ status = "ticking"
    /\ ~(pass_index < LoopBound)
    /\ tick_count' = AdvanceTickCount(tick_count,
                        TicksToPerform(ExpectedTickCount(clock, seconds_per_tick), tick_count))
    /\ status' = "running"
    /\ do_tick_calls' = do_tick_calls + 1
    /\ pass_index' = 0
    /\ UNCHANGED <<seconds_per_tick, objects, clock, last_op, invoked, ret, next_id,
                   removed, before, before_tick_count, passes_total>>

\* the do_tick in progress taking its next step
TickStep == TickLoopPass \/ TickReturn

NextLoop ==
    \/ TickEnter
    \/ TickStep
    \/ Add

\* do_tick taken pass by pass on the one thread of the program, which
\* keeps executing the loop it is in
SpecLoop ==
    Init /\ [][NextLoop]_vars /\ WF_vars(TickStep)

\* ------------------------------------------------------ the driver loop
\* main() on reaching its loop: the Simulation holds the first ball.
InitMain ==
    \E spt \in TickLens :
        /\ seconds_per_tick = spt
        /\ objects = Push(<<>>, NewBall(1, 400, 100, 80, 0))
        /\ tick_count = 0
        /\ status = "running"
        /\ clock = 0
        /\ last_op = "main"
        /\ invoked = <<>>
        /\ ret = <<>>
        /\ next_id = 2
        /\ removed = {}
        /\ before = <<>>
        /\ before_tick_count = 0
        /\ do_tick_calls = 0
        /\ passes_total = 0
        /\ pass_index = 0

\* a frame begins: the loop is entered, or the previous frame has drawn
FrameBegins == last_op \in {"main", "do_draw"}

\* handle_click with the button down: the callback adds one ball
MainClick == FrameBegins /\ Add

\* simulation.do_tick(mq::get_time()), with or without a click before it
MainTick ==
    /\ FrameBegins \/ last_op = "add_object"
    /\ \E time \in Times : time >= clock /\ DoTickOp(time, FALSE)

MainExpiry == last_op = "do_tick" /\ DoHandleExpiry

\* the arguments of draw_dbg_text, in order
MainTickCount == last_op = "do_handle_expiry" /\ GetTickCount

MainObjectCount == last_op = "get_tick_count" /\ GetObjectCount

MainDraw == last_op = "get_object_count" /\ DoDraw

NextMain ==
    \/ MainClick
    \/ MainTick
    \/ MainExpiry
    \/ MainTickCount
    \/ MainObjectCount
    \/ MainDraw

\* main()'s loop, which the runtime resumes after every next_frame().await
SpecMain == InitMain /\ [][NextMain]_vars /\ WF_vars(NextMain)

\* ------------------------------------------------------- a Ball alone
\* The values a Ball's position and velocity are drawn from: inside and
\* outside the box, towards and away from the floor and the walls.
PosXs == {-100, 350, 900}
PosYs == {-50, 499, 700}
VelXs == {-1000, 80}
VelYs == {-2000, 0, 300}
F32Fields == {"pos_x", "pos_y", "vel_x", "vel_y"}

\* Ball { pos, velocity, time_on_floor: 0., .. } with NaN in the fields of n
AnyBall(px, py, vx, vy, n) ==
    [NewBall(1, px, py, vx, vy) EXCEPT !.nan = n,
         !.pos_x = IF "pos_x" \in n THEN 0 ELSE @,
         !.pos_y = IF "pos_y" \in n THEN 0 ELSE @,
         !.vel_x = IF "vel_x" \in n THEN 0 ELSE @,
         !.vel_y = IF "vel_y" \in n THEN 0 ELSE @]

AnyBalls ==
    { AnyBall(px, py, vx, vy, n) :
        px \in PosXs, py \in PosYs, vx \in VelXs, vy \in VelYs, n \in SUBSET F32Fields }

InitBall ==
    \E spt \in TickLens, b \in AnyBalls :
        /\ seconds_per_tick = spt
        /\ objects = <<b>>
        /\ tick_count = 0
        /\ status = "running"
        /\ clock = 0
        /\ last_op = "new"
        /\ invoked = <<>>
        /\ ret = <<>>
        /\ next_id = 2
        /\ removed = {}
        /\ before = <<>>
        /\ before_tick_count = 0
        /\ do_tick_calls = 0
        /\ passes_total = 0
        /\ pass_index = 0

\* ball.on_tick(tick_len_seconds), called on the ball directly
BallTick ==
    /\ objects[1].ticks < MaxCalls
    /\ objects' = <<on_tick(objects[1], seconds_per_tick)>>
    /\ before' = objects
    /\ last_op' = "on_tick"
    /\ invoked' = <<objects[1].id>>
    /\ UNCHANGED <<seconds_per_tick, tick_count, status, clock, ret, next_id, removed,
                   before_tick_count, do_tick_calls, passes_total, pass_index>>

NextBall == BallTick

\* on_tick as a function of the ball it is given
SpecBall == InitBall /\ [][NextBall]_vars

\* ======================================================== properties
Count(seq, x) == Cardinality({k \in 1..Len(seq) : seq[k] = x})

\* floor(clock / seconds_per_tick) for seconds_per_tick > 0
FloorTicks == clock \div seconds_per_tick

\* C1  Tick accounting: with seconds_per_tick > 0 and non-decreasing times,
\* after every do_tick the tick count, and what get_tick_count returns, is
\* floor(t_last / seconds_per_tick), and no call has panicked.
C1_TickAccounting ==
    do_tick_calls > 0 =>
        /\ status = "running"
        /\ tick_count = FloorTicks
        /\ last_op = "get_tick_count" => ret = FloorTicks

C1_Witness ==
    /\ last_op = "get_tick_count"
    /\ do_tick_calls = 2
    /\ ret = 2
    /\ clock % seconds_per_tick # 0
    /\ before_tick_count = 2
    /\ objects # <<>>

\* C2  Catch-up: a do_tick(time) with floor(time / seconds_per_tick) >=
\* tick_count performs ticks_to_perform + 1 passes, ticks_to_perform being
\* the floor minus the tick count before the call, and calls on_tick of
\* every object held at the call exactly that many times.
C2_CatchUp ==
    [][ (last_op' = "do_tick" /\ do_tick_calls' = do_tick_calls + 1
            /\ clock' \div seconds_per_tick >= tick_count)
        => LET n == (clock' \div seconds_per_tick) - tick_count + 1
           IN /\ status' = "running"
              /\ passes_total' = passes_total + n
              /\ Len(invoked') = n * Len(objects)
              /\ \A i \in 1..Len(objects) : Count(invoked', objects[i].id) = n ]_vars

\* do_tick(0) then do_tick(5) with seconds_per_tick = 2: one pass, then three
C2_Witness ==
    /\ last_op = "do_tick"
    /\ seconds_per_tick = 2
    /\ clock = 5
    /\ do_tick_calls = 2
    /\ passes_total = 4
    /\ before_tick_count = 0
    /\ tick_count = 2
    /\ Len(before) = 2
    /\ Len(invoked) = 6

\* C3  Monotonic wall time enforced: a do_tick whose floor(time /
\* seconds_per_tick) is below the tick count does not panic, performs at
\* most the one pass of a clamped call, and does not lower the tick count.
C3_RegressRejected ==
    (last_op = "do_tick" /\ ExpectedTickCount(clock, seconds_per_tick) < before_tick_count)
        => /\ status = "running"
           /\ Len(invoked) <= Len(before)
           /\ tick_count >= before_tick_count

\* C4  tick_count never decreases under non-decreasing wall time, and only
\* do_tick changes it.
C4_TickCountMonotone ==
    [][ /\ tick_count' >= tick_count
        /\ last_op' # "do_tick" => tick_count' = tick_count ]_vars

C4_Witness ==
    /\ last_op \in {"add_object", "do_handle_expiry", "do_draw",
                    "get_tick_count", "get_object_count"}
    /\ do_tick_calls = 2
    /\ tick_count >= 3
    /\ removed # {}

\* C5  Expiry removal: after do_handle_expiry the collection is the
\* subsequence of the objects held before whose is_expired is false, in
\* their previous order, and the count fell by the number of expired ones.
PosIn(seq, o) == CHOOSE k \in 1..Len(seq) : seq[k] = o

C5_ExpiryRemoval ==
    last_op = "do_handle_expiry" =>
        /\ \A i \in 1..Len(objects) :
              /\ ~is_expired(objects[i])
              /\ \E j \in 1..Len(before) : before[j] = objects[i]
        /\ \A j \in 1..Len(before) :
              ~is_expired(before[j]) => \E i \in 1..Len(objects) : objects[i] = before[j]
        /\ \A i, k \in 1..Len(objects) :
              i < k => PosIn(before, objects[i]) < PosIn(before, objects[k])
        /\ Len(objects) = Len(before)
              - Cardinality({j \in 1..Len(before) : is_expired(before[j])})

\* the middle one of three objects expired and went, the two others stayed
C5_Witness ==
    /\ last_op = "do_handle_expiry"
    /\ Len(before) = 3
    /\ Len(objects) = 2
    /\ is_expired(before[2])

\* C6  An object that do_handle_expiry removed as expired never has on_tick
\* or on_draw called again.
C6_NoInvokeAfterRemoval ==
    \A k \in 1..Len(invoked) : invoked[k] \notin removed

C6_Witness ==
    /\ last_op \in {"do_tick", "do_draw"}
    /\ removed # {}
    /\ invoked # <<>>

\* C7  Order preservation: each tick pass and each do_draw calls the held
\* objects in add_object insertion order (ascending insertion stamp).
C7_OrderPreservation ==
    (last_op \in {"do_tick", "do_draw"} /\ status = "running") =>
        LET n == Len(before)
        IN /\ \A i, j \in 1..n : i < j => before[i].id < before[j].id
           /\ n = 0 => invoked = <<>>
           /\ n > 0 =>
                /\ Len(invoked) % n = 0
                /\ \A k \in 1..Len(invoked) : invoked[k] = before[((k - 1) % n) + 1].id

\* two objects ticked in order after an earlier one was removed
C7_Witness ==
    /\ last_op = "do_tick"
    /\ removed # {}
    /\ Len(objects) = 2
    /\ Len(invoked) >= 4

\* C8  Construct rejects a non-positive tick length: no do_tick ever runs
\* on a Simulation whose seconds_per_tick is <= 0.
C8_NonPositiveRejected ==
    do_tick_calls > 0 => seconds_per_tick > 0

\* C9  Expiry monotonicity: a held Ball that is expired stays expired, and
\* time_on_floor never decreases (seconds_per_tick > 0).
C9_ExpiryMonotone ==
    [][ \A i \in 1..Len(objects), j \in 1..Len(objects') :
          objects[i].id = objects'[j].id =>
            /\ objects'[j].time_on_floor >= objects[i].time_on_floor
            /\ is_expired(objects[i]) => is_expired(objects'[j]) ]_vars

\* an expired ball that was ticked again while above the floor
C9_Witness ==
    /\ last_op = "do_tick"
    /\ \E i \in 1..Len(objects) :
          /\ is_expired(before[i])
          /\ is_expired(objects[i])
          /\ objects[i].pos_y < FLOOR_Y

\* C10  do_tick neither adds, removes nor reorders objects, also when some
\* expire during one of its passes; every object is ticked in every pass.
C10_TickKeepsCollection ==
    (last_op = "do_tick" /\ status = "running") =>
        LET n == FloorTicks - before_tick_count + 1
        IN /\ Ids(objects) = Ids(before)
           /\ \A i \in 1..Len(before) : Count(invoked, before[i].id) = n

\* an object expired in a pass before the last one and was still ticked in all
C10_Witness ==
    /\ last_op = "do_tick"
    /\ LET n == FloorTicks - before_tick_count + 1
       IN \E i \in 1..Len(before), k \in 1..(n - 1) :
            /\ ~is_expired(before[i])
            /\ is_expired(TickPasses(<<before[i]>>, k, seconds_per_tick).objects[1])
            /\ Count(invoked, before[i].id) = n
            /\ objects[i].id = before[i].id

\* C11  do_draw mutates nothing: tick_count, seconds_per_tick, the
\* collection, every object's state and its is_expired are as before.
C11_DrawMutatesNothing ==
    [][ last_op' = "do_draw" =>
          /\ tick_count' = tick_count
          /\ seconds_per_tick' = seconds_per_tick
          /\ Len(objects') = Len(objects)
          /\ \A i \in 1..Len(objects) :
                /\ objects'[i] = objects[i]
                /\ is_expired(objects'[i]) = is_expired(objects[i]) ]_vars

\* a draw of an expired and a fading ball, after ticks
C11_Witness ==
    /\ last_op = "do_draw"
    /\ tick_count > 0
    /\ Len(invoked) >= 2
    /\ \E i, j \in 1..Len(objects) :
          /\ is_expired(objects[i])
          /\ ~is_expired(objects[j])
          /\ objects[j].time_on_floor > 0

\* C12  Isolation: after do_tick every object is what its own state before
\* the call becomes when ticked alone, the same number of passes.
C12_Isolation ==
    (last_op = "do_tick" /\ status = "running") =>
        LET n == FloorTicks - before_tick_count + 1
        IN /\ Len(objects) = Len(before)
           /\ \A i \in 1..Len(before) :
                 objects[i] = TickPasses(<<before[i]>>, n, seconds_per_tick).objects[1]

\* two objects on different trajectories ticked together, three passes or more
C12_Witness ==
    /\ last_op = "do_tick"
    /\ Len(objects) >= 2
    /\ Len(invoked) >= 3 * Len(objects)
    /\ objects[1].vel_y # objects[2].vel_y
    /\ objects[1].pos_x # objects[2].pos_x
    /\ objects[1].time_on_floor # objects[2].time_on_floor

\* C13  add_object appends at the end: the count grows by one, the objects
\* held before keep place and state, and tick_count is unchanged.
C13_AddAppends ==
    [][ last_op' = "add_object" =>
          /\ Len(objects') = Len(objects) + 1
          /\ \A i \in 1..Len(objects) : objects'[i] = objects[i]
          /\ objects'[Len(objects')].id = next_id
          /\ objects'[Len(objects')].id \notin IdSet(objects)
          /\ tick_count' = tick_count ]_vars

\* a third object appended behind two that were already ticked
C13_Witness ==
    /\ last_op = "add_object"
    /\ Len(objects) = 3
    /\ tick_count > 0
    /\ objects[1].ticks > 0
    /\ objects[2].ticks > 0
    /\ objects[3].ticks = 0

\* C15  Pass/tick drift: after n do_tick calls the passes performed number
\* tick_count + n; every held object received one on_tick per pass since it
\* was added, so one held since construction received tick_count + n.
C15_PassTickDrift ==
    /\ status = "running"
    /\ passes_total = tick_count + do_tick_calls
    /\ passes_total * seconds_per_tick
          = tick_count * seconds_per_tick + do_tick_calls * seconds_per_tick
    /\ \A i \in 1..Len(objects) :
          /\ objects[i].ticks = passes_total - objects[i].born
          /\ objects[i].born = 0 => objects[i].ticks = tick_count + do_tick_calls

C15_Witness ==
    /\ do_tick_calls = 2
    /\ tick_count >= 2
    /\ \E i \in 1..Len(objects) :
          /\ objects[i].born = 0
          /\ objects[i].ticks = tick_count + 2

\* C14  Termination: a do_tick whose expected tick count is not below
\* tick_count makes one pass per value of its finite range, never more than
\* the range holds, and returns.
C14_TickTerminates ==
    /\ [](status = "ticking" => pass_index <= LoopBound)
    /\ [][ (status = "ticking" /\ status' = "ticking")
              => LoopBound' - pass_index' < LoopBound - pass_index ]_vars
    /\ (status = "ticking") ~> (status = "running" /\ last_op = "do_tick")

\* a catch-up call of three passes or more has returned
C14_Witness ==
    /\ status = "running"
    /\ last_op = "do_tick"
    /\ do_tick_calls = 2
    /\ objects # <<>>
    /\ Len(invoked) >= 3 * Len(objects)
    /\ tick_count = before_tick_count + 2

\* C16  In the driver loop no expired object is drawn: every Ball that
\* do_draw passes to on_draw has time_on_floor < BALL_EXPIRY_TIME, and the
\* alpha on_draw computes for it is above 0 and at most 1 (100 hundredths).
C16_NoExpiredDrawn ==
    last_op = "do_draw" =>
        /\ invoked = Ids(before)
        /\ \A i \in 1..Len(before) :
              /\ ~is_expired(before[i])
              /\ before[i].time_on_floor < BALL_EXPIRY_TIME
              /\ on_draw(before[i]).alpha > 0
              /\ on_draw(before[i]).alpha <= 100

C16_Witness ==
    /\ last_op = "do_draw"
    /\ removed # {}
    /\ \E i \in 1..Len(before) :
          /\ before[i].time_on_floor > 0
          /\ on_draw(before[i]).alpha < 100
          /\ invoked[i] = before[i].id

\* C18  Eventual removal in the driver loop: every ball held by the
\* Simulation is eventually removed from it; a removed ball had reached
\* time_on_floor >= BALL_EXPIRY_TIME, and it goes in the do_handle_expiry of
\* the frame in which it first reports expired, so that no expired ball is
\* held once that call has returned.
C18_EventualRemoval ==
    /\ \A id \in 1..MaxAdds :
          (id \in IdSet(objects)) ~> (id \in removed /\ id \notin IdSet(objects))
    /\ [](last_op = "do_handle_expiry" =>
            \A i \in 1..Len(before) :
                (before[i].id \in removed) <=> is_expired(before[i]))
    /\ [](last_op \notin {"do_tick"} =>
            \A i \in 1..Len(objects) : ~is_expired(objects[i]))

C18_Witness ==
    /\ last_op = "do_handle_expiry"
    /\ removed = 1..MaxAdds
    /\ objects = <<>>
    /\ \E i \in 1..Len(before) : before[i].ticks > 2 /\ is_expired(before[i])

\* pos.y <= FLOOR_Y and 200 <= pos.x <= 500; a comparison with NaN is false
Contained(b) ==
    /\ b.nan \cap {"pos_x", "pos_y"} = {}
    /\ b.pos_y <= FLOOR_Y
    /\ WALL_LEFT <= b.pos_x
    /\ b.pos_x <= WALL_RIGHT

\* the tick took the ball below the floor: its pos.y plus the velocity the
\* tick gave it, times the tick length, is above FLOOR_Y
CrossedFloor(b, tick_len_seconds) ==
    /\ b.nan \cap {"pos_y", "vel_y"} = {}
    /\ b.pos_y + (b.vel_y + (tick_len_seconds * EARTH_ACCELERATION_M_PER_S_X10
                                 * GRAVITY_MULTIPLIER) \div 10) * tick_len_seconds > FLOOR_Y

\* time_on_floor grows by tick_len_seconds exactly in the ticks that
\* crossed the floor
FloorTimeRule ==
    objects[1].time_on_floor =
        before[1].time_on_floor
          + (IF CrossedFloor(before[1], seconds_per_tick) THEN seconds_per_tick ELSE 0)

====
